---- MODULE Spec2Model ----
(***************************************************************************)
(* State-machine model of lib/validate_GWASSS_entries.py: the per-row      *)
(* validator check_row, the streaming read loop (STEP #1), the p-value     *)
(* stratified aggregation loop (STEP #2, 2.3) and the issue summary        *)
(* (STEP #3 / STEP #4 totals).                                             *)
(*                                                                         *)
(* Python strings are TLA+ strings (character i of s is SubSeq(s, i, i)).  *)
(* Python floats are decimal numbers m * 10^e kept in normal form; the     *)
(* inputs enumerated below are short decimal literals, for which decimal   *)
(* comparison and binary64 comparison agree.                               *)
(***************************************************************************)
EXTENDS Integers, Sequences, FiniteSets, TLC

(***************************************************************************)
(* Bounds of the model.                                                    *)
(***************************************************************************)
\* largest number of data rows the input file holds, and largest pre-count
MaxRows == 2

(***************************************************************************)
(* CONSTANTS section of the program (lines 113-171).                       *)
(***************************************************************************)
GOOD_ENTRY == 0
MISSING_P_VALUE == 1
INVALID_ENTRY == 2

INVALID_ROW == 0
INVALID_RSID == 1
INVALID_CHR == 2
INVALID_BP == 3
INVALID_EA == 4
INVALID_OA == 5
INVALID_EAF == 6
INVALID_SE == 7
INVALID_ES == 8

ISSUES ==
    << INVALID_ROW, INVALID_RSID, INVALID_CHR, INVALID_BP, INVALID_EA,
       INVALID_OA, INVALID_EAF, INVALID_SE, INVALID_ES >>

ISSUES_LABELS ==
    << "format", "rsID", "Chr", "BP", "EA", "OA", "EAF", "SE", "beta" >>

NUCLEOTIDES == {"a", "t", "c", "g"}

NO_NUCLEOTIDE == "."

ALLOW_MULTI_NUCLEOTIDE_POLYMORPHISMS == TRUE

CATEGORY_CHR ==
    { "1", "01", "2", "02", "3", "03", "4", "04", "5", "05", "6", "06",
      "7", "07", "8", "08", "9", "09",
      "10", "11", "12", "13", "14", "15", "16", "17", "18", "19", "20",
      "21", "22", "23", "X", "x", "Y", "y", "M", "m" }

separator == "\t"

(***************************************************************************)
(* Python string primitives.                                               *)
(***************************************************************************)
Char(s, i) == SubSeq(s, i, i)

UpperLetters == "ABCDEFGHIJKLMNOPQRSTUVWXYZ"

LowerLetters == "abcdefghijklmnopqrstuvwxyz"

\* str.lower() on one character
LowerChar(c) ==
    IF \E k \in 1..26 : Char(UpperLetters, k) = c
    THEN Char(LowerLetters, CHOOSE k \in 1..26 : Char(UpperLetters, k) = c)
    ELSE c

RECURSIVE lower(_)
\* str.lower()
lower(s) ==
    IF s = "" THEN ""
    ELSE LowerChar(Char(s, 1)) \o lower(SubSeq(s, 2, Len(s)))

Whitespace == {" ", "\t", "\n", "\r"}

RECURSIVE lstrip(_)
lstrip(s) ==
    IF s # "" /\ Char(s, 1) \in Whitespace
    THEN lstrip(SubSeq(s, 2, Len(s)))
    ELSE s

RECURSIVE rstrip(_)
rstrip(s) ==
    IF s # "" /\ Char(s, Len(s)) \in Whitespace
    THEN rstrip(SubSeq(s, 1, Len(s) - 1))
    ELSE s

\* str.strip(), which float() applies to its argument
strip(s) == rstrip(lstrip(s))

\* first position of a character of set cs in s, 0 when there is none
Find(s, cs) ==
    IF \E i \in 1..Len(s) : Char(s, i) \in cs
    THEN CHOOSE i \in 1..Len(s) :
            /\ Char(s, i) \in cs
            /\ \A j \in 1..(i - 1) : Char(s, j) \notin cs
    ELSE 0

RECURSIVE replace(_, _)
\* str.replace(old, ''), old one character
replace(s, old) ==
    IF s = "" THEN ""
    ELSE (IF Char(s, 1) = old THEN "" ELSE Char(s, 1))
            \o replace(SubSeq(s, 2, Len(s)), old)

RECURSIVE split(_, _)
\* str.split(sep), sep one character: always at least one field
split(s, sep) ==
    LET k == Find(s, {sep})
    IN  IF k = 0 THEN << s >>
        ELSE << SubSeq(s, 1, k - 1) >> \o split(SubSeq(s, k + 1, Len(s)), sep)

(***************************************************************************)
(* Python floats: [k, m, e] is m * 10^e when k = "fin"; k = "nan", "inf"   *)
(* (m = 1 or -1) are the special values; k = "None" is Python's None.      *)
(***************************************************************************)
RECURSIVE Pow10(_)
Pow10(n) == IF n <= 0 THEN 1 ELSE 10 * Pow10(n - 1)

RECURSIVE Normal(_, _)
\* the normal form of m * 10^e: no trailing zero in m, zero is 0 * 10^0
Normal(m, e) ==
    IF m = 0 THEN [k |-> "fin", m |-> 0, e |-> 0]
    ELSE IF m % 10 = 0 THEN Normal(m \div 10, e + 1)
    ELSE [k |-> "fin", m |-> m, e |-> e]

None == [k |-> "None", m |-> 0, e |-> 0]

NaN == [k |-> "nan", m |-> 0, e |-> 0]

Inf(sign) == [k |-> "inf", m |-> sign, e |-> 0]

Zero == Normal(0, 0)

One == Normal(1, 0)

\* a <= b on floats; every comparison with nan is false
Leq(a, b) ==
    IF a.k = "nan" \/ b.k = "nan" THEN FALSE
    ELSE IF a.k = "inf" THEN a.m < 0 \/ (b.k = "inf" /\ b.m > 0)
    ELSE IF b.k = "inf" THEN b.m > 0
    ELSE LET lo == IF a.e < b.e THEN a.e ELSE b.e
         IN  a.m * Pow10(a.e - lo) <= b.m * Pow10(b.e - lo)

Digits == "0123456789"

IsDigit(c) == \E d \in 1..10 : Char(Digits, d) = c

DigitVal(c) == (CHOOSE d \in 1..10 : Char(Digits, d) = c) - 1

AllDigits(s) == s # "" /\ \A i \in 1..Len(s) : IsDigit(Char(s, i))

RECURSIVE DigitsValue(_)
DigitsValue(s) ==
    IF s = "" THEN 0
    ELSE 10 * DigitsValue(SubSeq(s, 1, Len(s) - 1)) + DigitVal(Char(s, Len(s)))

\* float(s): [exc, val]; exc is "none" or the exception raised
float(s) ==
    LET t     == strip(s)
        signed == t # "" /\ Char(t, 1) \in {"+", "-"}
        sign  == IF signed /\ Char(t, 1) = "-" THEN -1 ELSE 1
        body  == IF signed THEN SubSeq(t, 2, Len(t)) ELSE t
        epos  == Find(body, {"e", "E"})
        mant  == IF epos = 0 THEN body ELSE SubSeq(body, 1, epos - 1)
        expo  == IF epos = 0 THEN "" ELSE SubSeq(body, epos + 1, Len(body))
        esigned == expo # "" /\ Char(expo, 1) \in {"+", "-"}
        esign == IF esigned /\ Char(expo, 1) = "-" THEN -1 ELSE 1
        edigits == IF esigned THEN SubSeq(expo, 2, Len(expo)) ELSE expo
        dot   == Find(mant, {"."})
        ip    == IF dot = 0 THEN mant ELSE SubSeq(mant, 1, dot - 1)
        fp    == IF dot = 0 THEN "" ELSE SubSeq(mant, dot + 1, Len(mant))
        wellformed ==
            /\ ip = "" \/ AllDigits(ip)
            /\ fp = "" \/ AllDigits(fp)
            /\ ip # "" \/ fp # ""
            /\ epos = 0 \/ AllDigits(edigits)
    IN  IF lower(body) \in {"inf", "infinity"}
        THEN [exc |-> "none", val |-> Inf(sign)]
        ELSE IF lower(body) = "nan"
        THEN [exc |-> "none", val |-> NaN]
        ELSE IF wellformed
        THEN [exc |-> "none",
              val |-> Normal(sign * DigitsValue(ip \o fp),
                             (IF epos = 0 THEN 0 ELSE esign * DigitsValue(edigits))
                                - Len(fp))]
        ELSE [exc |-> "ValueError", val |-> None]

\* int(x) of a float: truncation toward zero; only its sign is used (bp < 0)
int(x) ==
    IF x.k = "nan" THEN [exc |-> "ValueError", neg |-> FALSE]
    ELSE IF x.k = "inf" THEN [exc |-> "OverflowError", neg |-> FALSE]
    ELSE [exc |-> "none", neg |-> Leq(x, Normal(-1, 0))]

\* the range test without its lower bound: x <= 1
InUnit_upper(x) == Leq(x, One)

\* 0 <= x <= 1
InUnit(x) == Leq(Zero, x) /\ Leq(x, One)

(***************************************************************************)
(* FUNCTIONS section: is_null (lines 195-196).                             *)
(***************************************************************************)
is_null(val) == lower(val) \in {"", " ", ".", "-", "na", "nan"}

(***************************************************************************)
(* check_row (lines 207-342).  A try block evaluates to the exception it   *)
(* raises ("none" when it completes); an except clause is the predicate of *)
(* the exceptions it catches.                                              *)
(***************************************************************************)
\* a handler that catches IndexError alone
ExceptIndexErrorOnly(e) == e = "IndexError"

\* `except:` with no exception class catches everything
BareExcept(e) == TRUE

\* line_cols[cols_i[name]] returning "" for an index out of range
GetOrEmpty(line_cols, cols, name) ==
    IF name \notin DOMAIN cols THEN [exc |-> "KeyError", val |-> ""]
    ELSE LET i == cols[name]
             n == Len(line_cols)
         IN  IF 0 <= i /\ i < n THEN [exc |-> "none", val |-> line_cols[i + 1]]
             ELSE [exc |-> "none", val |-> ""]

\* line_cols[cols_i[name]]: KeyError for a name the map lacks, IndexError for
\* an index outside -len..len-1 (a negative index counts from the end)
Get(line_cols, cols, name) ==
    IF name \notin DOMAIN cols THEN [exc |-> "KeyError", val |-> ""]
    ELSE LET i == cols[name]
             n == Len(line_cols)
         IN  IF 0 <= i /\ i < n THEN [exc |-> "none", val |-> line_cols[i + 1]]
             ELSE IF -n <= i /\ i < 0
             THEN [exc |-> "none", val |-> line_cols[n + i + 1]]
             ELSE [exc |-> "IndexError", val |-> ""]

\* the indices of an issue vector
IssueIdx == 0..(Len(ISSUES) - 1)

\* any(issues) looking at the malformed-row flag alone
any_first(issues) == issues[INVALID_ROW]

\* any(issues)
any(issues) == \E i \in DOMAIN issues : issues[i]

\* [False] * len(ISSUES)
NoIssues == [i \in IssueIdx |-> FALSE]

\* the try body of lines 229-232: the exception raised, whether the body
\* returned MISSING_P_VALUE, and the float assigned to pval
PvalBody(g, f) ==
    IF g.exc # "none" THEN [exc |-> g.exc, missing |-> FALSE, val |-> None]
    ELSE IF is_null(g.val) THEN [exc |-> "none", missing |-> TRUE, val |-> None]
    ELSE IF f.exc # "none" THEN [exc |-> f.exc, missing |-> FALSE, val |-> None]
    ELSE IF ~InUnit(f.val) THEN [exc |-> "none", missing |-> TRUE, val |-> None]
    ELSE [exc |-> "none", missing |-> FALSE, val |-> f.val]

PvalTry(line_cols, cols) ==
    PvalBody(Get(line_cols, cols, "pval"),
             float(Get(line_cols, cols, "pval").val))

RequiredFields == << "rsID", "Chr", "BP", "EA", "OA", "EAF", "SE", "beta" >>

\* the try body of lines 239-246: the first exception among the eight reads
FieldsTry(line_cols, cols) ==
    LET bad == {k \in 1..Len(RequiredFields) :
                    Get(line_cols, cols, RequiredFields[k]).exc # "none"}
    IN  IF bad = {} THEN "none"
        ELSE Get(line_cols, cols,
                 RequiredFields[CHOOSE k \in bad : \A j \in bad : k <= j]).exc

\* re.match("^rs\d+$", rsid)
MatchRsid(rsid) ==
    /\ Len(rsid) >= 3
    /\ SubSeq(rsid, 1, 2) = "rs"
    /\ AllDigits(SubSeq(rsid, 3, Len(rsid)))

\* lines 257-258
RsidTry(rsid) == [exc |-> "none", flag |-> ~MatchRsid(rsid)]

\* lines 264-265; chrom[3:] drops the first three characters, whatever they are
ChrTry(chrom) ==
    [exc |-> "none",
     flag |-> /\ chrom \notin CATEGORY_CHR
              /\ SubSeq(chrom, 4, Len(chrom)) \notin CATEGORY_CHR]

\* lines 271-273
BpBody(f, i) ==
    IF f.exc # "none" THEN [exc |-> f.exc, flag |-> FALSE]
    ELSE IF i.exc # "none" THEN [exc |-> i.exc, flag |-> FALSE]
    ELSE [exc |-> "none", flag |-> i.neg]

BpTry(bp) == BpBody(float(bp), int(float(bp).val))

\* lines 279-289 (and 295-305): the allele checks
AlleleTry(a) ==
    [exc |-> "none",
     flag |-> IF a = "" THEN TRUE
              ELSE IF a = NO_NUCLEOTIDE THEN FALSE
              ELSE IF ALLOW_MULTI_NUCLEOTIDE_POLYMORPHISMS
              THEN \E i \in 1..Len(a) : Char(lower(a), i) \notin NUCLEOTIDES
              ELSE lower(a) \notin NUCLEOTIDES]

\* lines 311-312
EafBody(f) ==
    IF f.exc # "none" THEN [exc |-> f.exc, flag |-> FALSE]
    ELSE [exc |-> "none", flag |-> ~InUnit(f.val)]

EafTry(af) == EafBody(float(af))

\* lines 318-320 (and 326-328)
NumBody(f, v) ==
    IF f.exc # "none" THEN [exc |-> f.exc, flag |-> FALSE]
    ELSE [exc |-> "none", flag |-> is_null(v)]

NumTry(v) == NumBody(float(v), v)

\* try: body / except: flag = True.  An exception the clause does not catch
\* leaves the function.
Guard(t) ==
    IF t.exc = "none" THEN t
    ELSE IF BareExcept(t.exc) THEN [exc |-> "none", flag |-> TRUE]
    ELSE t

\* a return of check_row
Return(pv, rep, iss) ==
    [exc |-> "none", pval |-> pv, report |-> rep, issues |-> iss]

\* an exception leaving check_row
Raise(e) ==
    [exc |-> e, pval |-> None, report |-> MISSING_P_VALUE, issues |-> NoIssues]

\* lines 255-330: the eight guarded field checks, in the order of ISSUES[1:]
FieldChecks(line_cols, cols) ==
    << Guard(RsidTry(Get(line_cols, cols, "rsID").val)),
       Guard(ChrTry(Get(line_cols, cols, "Chr").val)),
       Guard(BpTry(Get(line_cols, cols, "BP").val)),
       Guard(AlleleTry(Get(line_cols, cols, "EA").val)),
       Guard(AlleleTry(Get(line_cols, cols, "OA").val)),
       Guard(EafTry(Get(line_cols, cols, "EAF").val)),
       Guard(NumTry(Get(line_cols, cols, "SE").val)),
       Guard(NumTry(Get(line_cols, cols, "beta").val)) >>

\* the issue vector the checks leave (the malformed-row flag stays false)
IssuesOf(c) == [i \in IssueIdx |-> IF i = INVALID_ROW THEN FALSE ELSE c[i].flag]

\* lines 338-342, after the checks c
Verdict(pval, c, issues) ==
    IF \E k \in 1..Len(c) : c[k].exc # "none"
    THEN Raise(c[CHOOSE k \in 1..Len(c) :
                    /\ c[k].exc # "none"
                    /\ \A j \in 1..(k - 1) : c[j].exc = "none"].exc)
    ELSE IF any(issues) THEN Return(pval, INVALID_ENTRY, issues)
    ELSE Return(pval, GOOD_ENTRY, issues)

\* lines 237-342, s the outcome of the try body of lines 239-246
AfterFields(pval, s, c) ==
    IF s # "none"
    THEN (IF BareExcept(s)
          THEN Return(pval, INVALID_ENTRY, [NoIssues EXCEPT ![INVALID_ROW] = TRUE])
          ELSE Raise(s))
    ELSE Verdict(pval, c, IssuesOf(c))

\* lines 225-342, p the outcome of the try body of lines 229-232
AfterPval(p, s, c) ==
    IF p.exc # "none"
    THEN (IF BareExcept(p.exc) THEN Return(None, MISSING_P_VALUE, NoIssues)
          ELSE Raise(p.exc))
    ELSE IF p.missing THEN Return(None, MISSING_P_VALUE, NoIssues)
    ELSE AfterFields(p.val, s, c)

\* the result of check_row: (pval, report, issues), or the exception that
\* leaves it
check_row(line_cols, cols) ==
    AfterPval(PvalTry(line_cols, cols), FieldsTry(line_cols, cols),
              FieldChecks(line_cols, cols))

(***************************************************************************)
(* INPUT and USER SETTINGS (lines 33-103): the inputs of a run.            *)
(***************************************************************************)
\* the "standard" column map (lines 57-69)
StandardCols ==
    [Chr |-> 0, BP |-> 1, rsID |-> 2, OA |-> 3, EA |-> 4, EAF |-> 5,
     beta |-> 6, SE |-> 7, pval |-> 8, N |-> 9, INFO |-> 10]

\* a map read from a json config (line 74) with the p-value in column 0
PvalFirstCols ==
    [pval |-> 0, rsID |-> 1, Chr |-> 2, BP |-> 3, EA |-> 4, OA |-> 5,
     EAF |-> 6, SE |-> 7, beta |-> 8]

\* a json config that lacks one name
Without(cols, name) == [n \in (DOMAIN cols) \ {name} |-> cols[n]]

\* the tick labels of line 85
DefaultX == << "0", "1e-8", "1e-5", "1e-3", ".03", ".3", "1" >>

\* other settings of x that pass the asserts of lines 102-103
TickLabelLists ==
    { DefaultX, << "0", ".03", ".3" >>, << "1" >>, << "1e-5", ".05" >> }

\* line 89
ticks_width_rule_setting == "log10"

\* the settings of the width rule: the two of the Literal of line 89 and one
\* that is neither
WidthRules == { "even", ticks_width_rule_setting, "linear" }

\* line 98
TicksOf(labels) == [j \in 0..(Len(labels) - 1) |-> float(labels[j + 1]).val]

\* the asserts of lines 102-103
TicksValid(t) ==
    LET n == Cardinality(DOMAIN t)
    IN  /\ \A j \in 1..(n - 1) : Leq(t[j - 1], t[j]) /\ t[j - 1] # t[j]
        /\ n >= 1 => (Leq(Zero, t[0]) /\ Leq(t[n - 1], One))

Header == "CHR\tBP\tSNP\tA1\tA2\tFRQ\tBETA\tSE\tP\n"

Join(fields) ==
    LET RECURSIVE J(_)
        J(k) == IF k > Len(fields) THEN ""
                ELSE (IF k = 1 THEN "" ELSE separator) \o fields[k] \o J(k + 1)
    IN  J(1) \o "\n"

\* data lines for whole runs: good, invalid, missing p-value, short and
\* empty rows, with p-values on, between and above the ticks
Lines ==
    { Join(<< "chr7", "10500", "rs123", "A", "G", "0.3", "0.01", "0.02", "0.04" >>),
      Join(<< "7", "1e3", "rs9", "T", "C", "0", "-0.2", "0.1", "1" >>),
      Join(<< "chr99", "10500", "123", "A", "G", "0.3", "0.01", "0.02", "1e-8" >>),
      Join(<< "7", "-5", "rs1", "N", "G", "1.5", "0.01", "0.02", "0.5" >>),
      Join(<< "7", "10500", "rs1", "A", "G", "0.3", "0.01", "", "0.4" >>),
      Join(<< "7", "10500", "rs1", "A", "G", "0.3", "0.01", "0.02", "NA" >>),
      Join(<< "0.3", "rs1" >>),
      Join(<< >>) }

\* field contents for single rows: null-like forms in both cases, numbers
\* in, on the edge of and outside [0, 1], identifiers, chromosomes, alleles
FieldValues ==
    { "", " ", ".", "-", "NA", "na", "NaN", "nan", "abc", "0", "1", "0.5",
      "1e-8", "1.5", "-1", "-0.5", "1e3", "inf", " 0.3 ", "0.3x",
      "rs1", "rs", "rs12x", "RS12", "X", "chrX", "CHR7", "abc7", "24", "chr",
      "ACGT", "acgn", "a" }

\* complete rows in the order of StandardCols and of PvalFirstCols, every
\* field valid or every field but the p-value invalid
BaseRows ==
    { << "chr7", "10500", "rs123", "A", "G", "0.3", "0.01", "0.02", "0.04" >>,
      << "chr99", "-7", "123", "", "AN", "1.5", "nan", "x", "1e-8" >>,
      << "0.04", "rs123", "7", "10500", "G", "A", "0.3", "0.02", "0.01" >>,
      << "1", "rs", "0", "bp", "-", "n", "-0.1", "NA", "" >> }

\* the base rows, each with one field replaced
Replaced ==
    { [b EXCEPT ![k] = v] : b \in BaseRows, k \in 1..9, v \in FieldValues }

\* the base rows cut short, down to no field at all
Truncated == { SubSeq(b, 1, n) : b \in BaseRows, n \in 0..9 }

RowLines == { Join(f) : f \in Replaced \cup Truncated }

\* a well-formed row under StandardCols
FollowLine ==
    Join(<< "X", "2e4", "rs42", "AC", ".", "1", "-1.5", "0.3", "0.3" >>)

\* files of two data rows: any row, then a well-formed one
RowFiles == { << Header, l, FollowLine >> : l \in RowLines }

\* the column maps single rows are read with
ColMaps ==
    { StandardCols, PvalFirstCols, Without(StandardCols, "pval"),
      Without(PvalFirstCols, "EAF") }

RECURSIVE SeqsUpTo(_, _)
\* the sequences over S of length at most n
SeqsUpTo(S, n) ==
    IF n = 0 THEN { << >> }
    ELSE LET shorter == SeqsUpTo(S, n - 1)
         IN  shorter \cup { Append(q, l) : q \in shorter, l \in S }

Files == { << Header >> \o rows : rows \in SeqsUpTo(Lines, MaxRows) }

(***************************************************************************)
(* The state of a run.                                                     *)
(***************************************************************************)
VARIABLES
    cols_i,         \* column map (lines 56-74)
    x,              \* tick labels (line 85)
    ticks,          \* line 98
    ticks_width_rule,   \* line 100
    file,           \* the lines GWAS_FILE_o yields, header first
    file_pos,       \* position of GWAS_FILE_o: index of the next line
    num_of_lines,   \* line 362
    num_of_snps,    \* line 363
    line_i,         \* lines 366, 369, 464
    snp_i,          \* line 377
    SNPs_pval,      \* line 371
    SNPs_report,    \* line 372
    SNPs_issues,    \* line 373
    range_next,     \* next index of the range iterated at line 464
    missing_pval_bins,              \* line 458
    good_entry_bins,                \* line 459
    invalid_entry_bins,             \* line 460
    invalid_entry_bins_reason_bins, \* line 462
    issues_count,                   \* line 500
    invalid_entries_totally,        \* line 523
    bars_widths,    \* line 425
    ticks_loc,      \* line 445
    caught_e,       \* e, the exception caught at line 382, "none" before that
    printed_line,   \* the line numbers the print of line 387 has named
    pc              \* position in the script

vars ==
    << cols_i, x, ticks, ticks_width_rule, file, file_pos, num_of_lines,
       num_of_snps, line_i, bars_widths, ticks_loc,
       snp_i, SNPs_pval, SNPs_report, SNPs_issues, range_next,
       missing_pval_bins, good_entry_bins, invalid_entry_bins,
       invalid_entry_bins_reason_bins, issues_count, invalid_entries_totally,
       caught_e, printed_line, pc >>

step1vars ==
    << num_of_lines, num_of_snps, snp_i, SNPs_pval, SNPs_report, SNPs_issues,
       file_pos >>

step2vars ==
    << range_next, missing_pval_bins, good_entry_bins, invalid_entry_bins,
       invalid_entry_bins_reason_bins >>

step3vars == << issues_count, invalid_entries_totally >>

inputs == << cols_i, x, ticks, ticks_width_rule, file >>

geometryvars == << bars_widths, ticks_loc >>

handlervars == << caught_e, printed_line >>

\* a slot of np.empty that nothing was stored in
EmptyReport == -1

EmptyPval == [k |-> "empty", m |-> 0, e |-> 0]

EmptyIssues == << >>

\* the state when line 353 is reached, for the given inputs
InitWith(cols, labels, rule, f) ==
    /\ cols_i = cols
    /\ x = labels
    /\ ticks = TicksOf(labels)
    /\ TicksValid(ticks)
    /\ ticks_width_rule = rule
    /\ bars_widths = << >>
    /\ ticks_loc = << >>
    /\ file = f
    /\ file_pos = 1
    /\ num_of_lines = 0
    /\ num_of_snps = 0
    /\ line_i = 0
    /\ snp_i = 0
    /\ SNPs_pval = << >>
    /\ SNPs_report = << >>
    /\ SNPs_issues = << >>
    /\ range_next = 0
    /\ missing_pval_bins = << >>
    /\ good_entry_bins = << >>
    /\ invalid_entry_bins = << >>
    /\ invalid_entry_bins_reason_bins = << >>
    /\ issues_count = << >>
    /\ invalid_entries_totally = 0
    /\ caught_e = "none"
    /\ printed_line = << >>
    /\ pc = "step1"

Init ==
    \E cols \in {StandardCols, PvalFirstCols}, labels \in TickLabelLists,
       rule \in WidthRules, f \in Files :
        InitWith(cols, labels, rule, f)

(***************************************************************************)
(* STEP #1 (lines 362-389): read the file line by line.                    *)
(***************************************************************************)
\* wccount (lines 186-192): the line count an external wc reports
LineCounts == 1..(MaxRows + 1)

\* lines 362-377: count the lines, skip the header, allocate the arrays
Step1Setup ==
    /\ pc = "step1"
    /\ \E n \in LineCounts :
        /\ num_of_lines' = n
        /\ num_of_snps' = n - 1
        /\ SNPs_pval' = [k \in 0..(n - 2) |-> EmptyPval]
        /\ SNPs_report' = [k \in 0..(n - 2) |-> EmptyReport]
        /\ SNPs_issues' = [k \in 0..(n - 2) |-> EmptyIssues]
    /\ file_pos' = IF file_pos <= Len(file) THEN file_pos + 1 ELSE file_pos
    /\ line_i' = line_i + 1
    /\ snp_i' = 0
    /\ pc' = "reading"
    /\ UNCHANGED << inputs, step2vars, step3vars, handlervars, geometryvars >>

\* GWAS_FILE_o.readline(): the next line, '' at the end of the file
readline(f, pos) == IF pos <= Len(f) THEN f[pos] ELSE ""

\* a float array slot takes None as nan
AsFloat64(v) == IF v = None THEN NaN ELSE v

\* the except clause of lines 382-388: these exceptions end the loop quietly
IsEndOfFile(e) == e \in {"IndexError", "EOFError"}

\* what the statement of line 379 raises: the exception leaving check_row,
\* or IndexError from the store into a full array
Raised379(r, i, n) ==
    IF r.exc # "none" THEN r.exc
    ELSE IF i >= n THEN "IndexError"
    ELSE "none"

\* lines 382-388: what the except clause adds to the printed diagnostics for
\* the exception it caught, li being the value of line_i
Handler(raised, printed, li) ==
    IF raised = "none" \/ IsEndOfFile(raised) THEN printed
    ELSE Append(printed, li)

\* line 368: the read of the header fails in the I/O layer; the statement is
\* outside the try, so the error leaves the script as it is
HeaderReadFails ==
    /\ pc = "step1"
    /\ \E n \in LineCounts :
        /\ num_of_lines' = n
        /\ num_of_snps' = n - 1
    /\ pc' = "OSError"
    /\ UNCHANGED << inputs, file_pos, line_i, snp_i, SNPs_pval, SNPs_report,
                    SNPs_issues, step2vars, step3vars, handlervars,
                    geometryvars >>

\* lines 379, 382-388: readline() fails in the I/O layer while the line at
\* file_pos is being read; the except clause prints line_i and raises again
ReadRowFails ==
    /\ pc = "reading"
    /\ caught_e' = "OSError"
    /\ printed_line' = Handler("OSError", printed_line, line_i)
    /\ pc' = "raise"
    /\ UNCHANGED << inputs, step1vars, line_i, step2vars, step3vars,
                    geometryvars >>

\* lines 378-388: one turn of the while loop, with its except clause
ReadRow ==
    /\ pc = "reading"
    /\ \E r \in {check_row(split(replace(readline(file, file_pos), "\n"),
                                 separator), cols_i)} :
       \E raised \in {Raised379(r, snp_i, num_of_snps)} :
           IF raised = "none"
           THEN /\ SNPs_pval' = [SNPs_pval EXCEPT ![snp_i] = AsFloat64(r.pval)]
                /\ SNPs_report' = [SNPs_report EXCEPT ![snp_i] = r.report]
                /\ SNPs_issues' = [SNPs_issues EXCEPT ![snp_i] = r.issues]
                /\ snp_i' = snp_i + 1
                /\ pc' = "reading"
                /\ UNCHANGED handlervars
           ELSE /\ UNCHANGED << SNPs_pval, SNPs_report, SNPs_issues, snp_i >>
                /\ pc' = IF IsEndOfFile(raised) THEN "step2" ELSE "raise"
                /\ caught_e' = raised
                /\ printed_line' = Handler(raised, printed_line, line_i)
    /\ file_pos' = IF file_pos <= Len(file) THEN file_pos + 1 ELSE file_pos
    /\ UNCHANGED << inputs, num_of_lines, num_of_snps, line_i, step2vars,
                    step3vars, geometryvars >>

(***************************************************************************)
(* STEP #2, 2.1 and 2.2 (lines 417-453): the widths of the bars and the    *)
(* locations of the ticks.  A width is a number                            *)
(*     (q + the sum over m of l[m] * log10(m)) / d                         *)
(* with integers q, l[m] and d > 0, written [q, l, d] in lowest terms, so  *)
(* that log10, -, / and += are computed exactly.                           *)
(***************************************************************************)
Abs(n) == IF n < 0 THEN -n ELSE n

\* the greatest divisor of d that divides every member of S
CommonDivisor(S, d) ==
    CHOOSE g \in 1..d :
        /\ d % g = 0 /\ \A n \in S : n % g = 0
        /\ \A h \in (g + 1)..d : ~(d % h = 0 /\ \A n \in S : n % h = 0)

\* [q, l, d] in lowest terms, without the logarithms of coefficient 0
LinNormal(q, l, d) ==
    LET nz == { m \in DOMAIN l : l[m] # 0 }
        g == CommonDivisor({Abs(q)} \cup { Abs(l[m]) : m \in nz }, d)
    IN  [q |-> q \div g, l |-> [m \in nz |-> l[m] \div g], d |-> d \div g]

\* the float of an integer: 1., 2.
Rat(n) == [q |-> n, l |-> << >>, d |-> 1]

Coef(a, m) == IF m \in DOMAIN a.l THEN a.l[m] ELSE 0

\* a + b
LinAdd(a, b) ==
    LinNormal(a.q * b.d + b.q * a.d,
              [m \in (DOMAIN a.l) \cup (DOMAIN b.l) |->
                    Coef(a, m) * b.d + Coef(b, m) * a.d],
              a.d * b.d)

\* -a
LinNeg(a) == [q |-> -a.q, l |-> [m \in DOMAIN a.l |-> -a.l[m]], d |-> a.d]

\* a - b
LinSub(a, b) == LinAdd(a, LinNeg(b))

\* a / b for a b without logarithms that is not 0
LinDiv(a, b) ==
    LET sign == IF b.q < 0 THEN -1 ELSE 1
    IN  LinNormal(sign * a.q * b.d, [m \in DOMAIN a.l |-> sign * a.l[m] * b.d],
                  a.d * Abs(b.q))

\* np.log10(t) of a tick t = m * 10^e above 0: e + log10(m)
log10(t) ==
    [q |-> t.e, l |-> IF t.m = 1 THEN << >> ELSE (t.m :> 1), d |-> 1]

\* line 432
unit_width == LinSub(log10(One), log10(float("1e-2").val))

\* lines 425-432: bars_widths under one of the two rules
BarsWidths(rule, t) ==
    [i \in DOMAIN t |->
        IF i = 0 THEN Rat(1)
        ELSE IF rule = "even" THEN Rat(1)
        ELSE IF t[i - 1] = Zero THEN Rat(2)
        ELSE LinDiv(LinSub(log10(t[i]), log10(t[i - 1])), unit_width)]

RECURSIVE CumulativeFrom(_, _, _)
\* cumulative after the turn of the loop of lines 447-449 for widths[i],
\* having started at start
CumulativeFrom(start, widths, i) ==
    IF i < 0 THEN start
    ELSE LinAdd(CumulativeFrom(start, widths, i - 1), widths[i])

\* lines 445-449 with cumulative starting at 0
TicksLoc_unshifted(widths) ==
    [i \in DOMAIN widths |-> CumulativeFrom(Rat(0), widths, i)]

\* lines 445-449
TicksLoc(widths) ==
    [i \in DOMAIN widths |-> CumulativeFrom(LinNeg(widths[0]), widths, i)]

\* lines 425-453: the geometry, or the ValueError of line 435
Step2Geometry ==
    /\ pc = "step2"
    /\ IF ticks_width_rule \in {"even", "log10"}
       THEN /\ bars_widths' = BarsWidths(ticks_width_rule, ticks)
            /\ ticks_loc' = TicksLoc(bars_widths')
            /\ pc' = "step2.3"
       ELSE /\ bars_widths' = (0 :> Rat(1))
            /\ UNCHANGED ticks_loc
            /\ pc' = "ValueError"
    /\ UNCHANGED << inputs, step1vars, line_i, step2vars, step3vars,
                    handlervars >>

(***************************************************************************)
(* STEP #2, 2.3 (lines 458-480): count the entries per p-value bucket.     *)
(***************************************************************************)
\* lines 458-462: the zeroed counters
Step2Setup ==
    /\ pc = "step2.3"
    /\ LET n == Cardinality(DOMAIN ticks)
       IN  /\ missing_pval_bins' = [j \in 0..(n - 1) |-> 0]
           /\ good_entry_bins' = [j \in 0..(n - 1) |-> 0]
           /\ invalid_entry_bins' = [j \in 0..(n - 1) |-> 0]
           /\ invalid_entry_bins_reason_bins' =
                [j \in 0..(n - 1) |-> [i \in IssueIdx |-> 0]]
    /\ range_next' = 0
    /\ pc' = "aggregating"
    /\ UNCHANGED << inputs, step1vars, line_i, step3vars, handlervars,
                    geometryvars >>

RECURSIVE ScanFrom(_, _, _)
\* for j in range(from, len(ticks)): if p <= ticks[j]: ... break
\* the j at which the loop breaks, -1 when it runs out
ScanFrom(t, p, j) ==
    IF j >= Cardinality(DOMAIN t) THEN -1
    ELSE IF Leq(p, t[j]) THEN j
    ELSE ScanFrom(t, p, j + 1)

RECURSIVE ScanStrictFrom(_, _, _)
\* the scan with p < ticks[j] as its test
ScanStrictFrom(t, p, j) ==
    IF j >= Cardinality(DOMAIN t) THEN -1
    ELSE IF Leq(p, t[j]) /\ p # t[j] THEN j
    ELSE ScanStrictFrom(t, p, j + 1)

\* lines 470-471 with < in place of <=
Bucket_strict(t, p) == ScanStrictFrom(t, p, 1)

\* lines 470-471 and 476-477: range(1, len(ticks))
Bucket(t, p) == ScanFrom(t, p, 1)

\* line 479 with = in place of +=
SetFlags(row, flags) == [i \in DOMAIN row |-> IF flags[i] THEN 1 ELSE 0]

\* row += flags, a bool array added to an int array
AddFlags(row, flags) ==
    [i \in DOMAIN row |-> row[i] + (IF flags[i] THEN 1 ELSE 0)]

\* the body of the loop with the Invalid branch counting in good_entry_bins
AggBody_swapped(b, t, p, report, flags) ==
    LET j == Bucket(t, p)
    IN  IF report = MISSING_P_VALUE
        THEN [b EXCEPT !.missing[0] = @ + 1]
        ELSE IF report = GOOD_ENTRY
        THEN (IF j = -1 THEN b ELSE [b EXCEPT !.good[j] = @ + 1])
        ELSE IF report = INVALID_ENTRY
        THEN (IF j = -1 THEN b
              ELSE [b EXCEPT !.good[j] = @ + 1,
                             !.reason[j] = AddFlags(@, flags)])
        ELSE b

\* the body of the loop without its break statements: every bucket whose
\* tick is at or above p counts the row
AggBody_nobreak(b, t, p, report, flags) ==
    LET hit(j) == j >= 1 /\ Leq(p, t[j])
    IN  IF report = MISSING_P_VALUE
        THEN [b EXCEPT !.missing[0] = @ + 1]
        ELSE IF report = GOOD_ENTRY
        THEN [b EXCEPT !.good = [j \in DOMAIN @ |-> @[j] + (IF hit(j) THEN 1 ELSE 0)]]
        ELSE IF report = INVALID_ENTRY
        THEN [b EXCEPT !.invalid = [j \in DOMAIN @ |-> @[j] + (IF hit(j) THEN 1 ELSE 0)],
                       !.reason = [j \in DOMAIN @ |->
                                     IF hit(j) THEN AddFlags(@[j], flags) ELSE @[j]]]
        ELSE b

\* lines 466-480: the body of the loop for one row, on the four counters
AggBody(b, t, p, report, flags) ==
    LET j == Bucket(t, p)
    IN  IF report = MISSING_P_VALUE
        THEN [b EXCEPT !.missing[0] = @ + 1]
        ELSE IF report = GOOD_ENTRY
        THEN (IF j = -1 THEN b ELSE [b EXCEPT !.good[j] = @ + 1])
        ELSE IF report = INVALID_ENTRY
        THEN (IF j = -1 THEN b
              ELSE [b EXCEPT !.invalid[j] = @ + 1,
                             !.reason[j] = AddFlags(@, flags)])
        ELSE b

\* the four counters as one record
Bins ==
    [missing |-> missing_pval_bins, good |-> good_entry_bins,
     invalid |-> invalid_entry_bins, reason |-> invalid_entry_bins_reason_bins]

\* what a read of slot k yields: the stored row, or, for a slot of np.empty
\* nothing was stored in, whatever the memory held
SlotReads(k) ==
    IF SNPs_report[k] = EmptyReport
    THEN { [pval |-> p, report |-> r, issues |-> f] :
             p \in {Zero, One, NaN},
             r \in {GOOD_ENTRY, MISSING_P_VALUE, INVALID_ENTRY, EmptyReport},
             f \in {NoIssues, [i \in IssueIdx |-> TRUE]} }
    ELSE { [pval |-> SNPs_pval[k], report |-> SNPs_report[k],
            issues |-> SNPs_issues[k]] }

\* lines 464-480: one turn of the for loop
AggRow ==
    /\ pc = "aggregating"
    /\ range_next < Cardinality(DOMAIN SNPs_report)
    /\ line_i' = range_next
    /\ range_next' = range_next + 1
    /\ \E s \in SlotReads(range_next) :
        \E b \in {AggBody(Bins, ticks, s.pval, s.report, s.issues)} :
            /\ missing_pval_bins' = b.missing
            /\ good_entry_bins' = b.good
            /\ invalid_entry_bins' = b.invalid
            /\ invalid_entry_bins_reason_bins' = b.reason
    /\ pc' = "aggregating"
    /\ UNCHANGED << inputs, step1vars, step3vars, handlervars, geometryvars >>

(***************************************************************************)
(* STEP #3 (lines 500-507) and the totals of STEP #4 (lines 523-524).      *)
(***************************************************************************)
RECURSIVE SumUpTo(_, _)
\* sum([f[i] for i in range(n)])
SumUpTo(f, n) == IF n <= 0 THEN 0 ELSE SumUpTo(f, n - 1) + f[n - 1]

\* sum(list)
sum(f) == SumUpTo(f, Cardinality(DOMAIN f))

\* line 503 summing over range(len(invalid_entry_bins) - 1)
IssueTotal_short(reason, invalid, issue) ==
    SumUpTo([i \in DOMAIN invalid |-> reason[i][issue]],
            Cardinality(DOMAIN invalid) - 1)

\* line 503
IssueTotal(reason, invalid, issue) ==
    SumUpTo([i \in DOMAIN invalid |-> reason[i][issue]],
            Cardinality(DOMAIN invalid))

CountKeys == { ISSUES_LABELS[k] : k \in 1..Len(ISSUES_LABELS) } \cup {"pval", "total_entries"}

LabelIndex(label) == (CHOOSE k \in 1..Len(ISSUES_LABELS) : ISSUES_LABELS[k] = label) - 1

\* lines 500-507
Step3 ==
    /\ pc = "aggregating"
    /\ range_next >= Cardinality(DOMAIN SNPs_report)
    /\ issues_count' =
        [key \in CountKeys |->
            IF key = "pval" THEN sum(missing_pval_bins)
            ELSE IF key = "total_entries" THEN num_of_snps
            ELSE IssueTotal(invalid_entry_bins_reason_bins, invalid_entry_bins,
                            LabelIndex(key))]
    /\ pc' = "step4"
    /\ UNCHANGED << inputs, step1vars, step2vars, line_i,
                    invalid_entries_totally, handlervars,
                    geometryvars >>

\* lines 523-524: the total, then a division by num_of_snps
Step4Totals ==
    /\ pc = "step4"
    /\ invalid_entries_totally' = sum(invalid_entry_bins) + sum(missing_pval_bins)
    /\ pc' = IF num_of_snps = 0 THEN "ZeroDivisionError" ELSE "done"
    /\ UNCHANGED << inputs, step1vars, step2vars, line_i, issues_count,
                    handlervars, geometryvars >>

Next ==
    \/ Step1Setup
    \/ HeaderReadFails
    \/ ReadRow
    \/ ReadRowFails
    \/ Step2Geometry
    \/ Step2Setup
    \/ AggRow
    \/ Step3
    \/ Step4Totals

Spec == Init /\ [][Next]_vars

\* runs over a row of any content followed by a well-formed row, for the
\* claims about check_row
InitRow ==
    \E cols \in ColMaps, f \in RowFiles :
        InitWith(cols, DefaultX, ticks_width_rule_setting, f)

SpecRow == InitRow /\ [][Next]_vars

(***************************************************************************)
(* Properties.  RowAt(k) is the raw row the read loop handed to check_row  *)
(* for slot k: the fields of data line k, or of '' past the end of file.   *)
(***************************************************************************)
RowAt(k) == split(replace(readline(file, k + 2), "\n"), separator)

\* the slots the read loop has stored a row in
Stored == 0..(snp_i - 1)

Verdicts == {GOOD_ENTRY, MISSING_P_VALUE, INVALID_ENTRY}

AllFalse(flags) == DOMAIN flags = IssueIdx /\ \A i \in IssueIdx : ~flags[i]

\* the p-value is a number of [0, 1]
UnitNumber(v) ==
    /\ v.k = "fin"
    /\ v.m >= 0
    /\ (v.e >= 0 => v.m * Pow10(v.e) <= 1)
    /\ (v.e < 0 => v.m <= Pow10(-v.e))

\* C1: every row check_row classifies gets exactly one verdict of Good,
\* MissingPValue, Invalid; Good comes with all nine flags false, Invalid
\* with at least one flag true and a numeric p-value in [0, 1],
\* MissingPValue with no numeric p-value and all nine flags false.
C1_VerdictFlags ==
    \A k \in Stored :
        /\ SNPs_report[k] \in Verdicts
        /\ DOMAIN SNPs_issues[k] = IssueIdx
        /\ SNPs_report[k] = GOOD_ENTRY => AllFalse(SNPs_issues[k])
        /\ SNPs_report[k] = INVALID_ENTRY =>
                /\ \E i \in IssueIdx : SNPs_issues[k][i]
                /\ UnitNumber(SNPs_pval[k])
        /\ SNPs_report[k] = MISSING_P_VALUE =>
                /\ SNPs_pval[k] = NaN
                /\ AllFalse(SNPs_issues[k])

\* an Invalid row with field flags but no malformed-row flag, next to a Good
\* row
C1_Witness ==
    /\ snp_i = 2
    /\ SNPs_report[0] = INVALID_ENTRY
    /\ ~SNPs_issues[0][INVALID_ROW]
    /\ SNPs_issues[0][INVALID_RSID]
    /\ SNPs_issues[0][INVALID_EAF]
    /\ SNPs_report[1] = GOOD_ENTRY

\* the raw p-value field of a row, for a map whose index is not negative
HasPvalField(fields, cols) ==
    /\ "pval" \in DOMAIN cols
    /\ cols["pval"] >= 0
    /\ cols["pval"] < Len(fields)

PvalField(fields, cols) == fields[cols["pval"] + 1]

NullForms == {"", " ", ".", "-", "na", "nan"}

\* the p-value of the row is absent, null-like, unparseable or outside [0, 1]
PvalUnusable(fields, cols) ==
    \/ ~HasPvalField(fields, cols)
    \/ lower(PvalField(fields, cols)) \in NullForms
    \/ float(PvalField(fields, cols)).exc # "none"
    \/ ~UnitNumber(float(PvalField(fields, cols)).val)

\* a required field whose mapped index is past the end of the row
SomeFieldOutOfRange(fields, cols) ==
    \E k \in 1..Len(RequiredFields) :
        /\ RequiredFields[k] \in DOMAIN cols
        /\ cols[RequiredFields[k]] >= Len(fields)

\* C4: the p-value check comes first: a row whose pval column is absent
\* from the map, out of range for the row, null-like, unparseable or
\* outside [0, 1] is MissingPValue with all flags false, whatever its other
\* fields hold or lack.
C4_PvalFirst ==
    \A k \in Stored :
        PvalUnusable(RowAt(k), cols_i) =>
            /\ SNPs_report[k] = MISSING_P_VALUE
            /\ AllFalse(SNPs_issues[k])
            /\ SNPs_pval[k] = NaN

\* a row with p-value "NA" read with a map that lacks a required name
C4_Witness ==
    /\ snp_i >= 1
    /\ "EAF" \notin DOMAIN cols_i
    /\ HasPvalField(RowAt(0), cols_i)
    /\ PvalField(RowAt(0), cols_i) = "NA"
    /\ SNPs_report[0] = MISSING_P_VALUE

\* C9: a row with a usable p-value and a required field whose mapped index
\* is out of range is Invalid, carries that p-value, and has the
\* malformed-row flag alone set, whatever the fields it does hold.
C9_MalformedRow ==
    \A k \in Stored :
        (~PvalUnusable(RowAt(k), cols_i) /\ SomeFieldOutOfRange(RowAt(k), cols_i)) =>
            /\ SNPs_report[k] = INVALID_ENTRY
            /\ SNPs_pval[k] = float(PvalField(RowAt(k), cols_i)).val
            /\ \A i \in IssueIdx : SNPs_issues[k][i] <=> (i = INVALID_ROW)

\* a four-field row whose rsID, chromosome and position are all invalid
C9_Witness ==
    /\ snp_i >= 1
    /\ RowAt(0) = << "1", "rs", "0", "bp" >>
    /\ cols_i = PvalFirstCols
    /\ SNPs_report[0] = INVALID_ENTRY
    /\ SNPs_issues[0][INVALID_ROW]
    /\ SNPs_pval[0] = One

\* C5: no row content and no column map makes check_row raise: the read
\* loop stores a verdict for the row and goes on to the next one, so that
\* when it ends every slot of the arrays holds a classified row.  Only a
\* failure of the I/O layer ends the loop with an error.
C5_NoRowIsFatal ==
    /\ pc = "raise" => caught_e = "OSError"
    /\ \A k \in Stored : SNPs_report[k] \in Verdicts
    /\ pc \notin {"step1", "reading", "raise", "OSError"} => snp_i = num_of_snps

\* a short row read with a map lacking a required name, and the row after it
\* classified
C5_Witness ==
    /\ pc = "step2"
    /\ snp_i = 2
    /\ Len(RowAt(0)) < 9
    /\ "EAF" \notin DOMAIN cols_i
    /\ SNPs_report[0] = INVALID_ENTRY
    /\ SNPs_report[1] \in Verdicts

(***************************************************************************)
(* Properties of the aggregation and of the summary.                       *)
(***************************************************************************)
NTicks == Cardinality(DOMAIN ticks)

Buckets == 0..(NTicks - 1)

\* the positions at which the aggregation loop is running or has run
AggPcs == {"aggregating", "step4", "done", "ZeroDivisionError"}

\* the positions after the aggregation loop
AfterAggPcs == {"step4", "done", "ZeroDivisionError"}

\* the rows the aggregation loop has gone through
Processed == 0..(range_next - 1)

\* the lowest index j >= 1 with p <= ticks[j], -1 when there is none
LowestTick(p) ==
    IF \E j \in 1..(NTicks - 1) : Leq(p, ticks[j])
    THEN CHOOSE j \in 1..(NTicks - 1) :
            /\ Leq(p, ticks[j])
            /\ \A i \in 1..(j - 1) : ~Leq(p, ticks[i])
    ELSE -1

\* the processed rows of a verdict whose p-value falls to bucket j
RowsIn(report, j) ==
    {k \in Processed : SNPs_report[k] = report /\ LowestTick(SNPs_pval[k]) = j}

\* the processed Good and Invalid rows whose p-value is above every tick
Dropped ==
    {k \in Processed :
        /\ SNPs_report[k] \in {GOOD_ENTRY, INVALID_ENTRY}
        /\ \A j \in 1..(NTicks - 1) : ~Leq(SNPs_pval[k], ticks[j])}

MissingRows == {k \in Processed : SNPs_report[k] = MISSING_P_VALUE}

RECURSIVE SumOver(_, _)
\* the sum of f over the set S
SumOver(S, f) ==
    IF S = {} THEN 0
    ELSE LET k == CHOOSE k \in S : TRUE
         IN  f[k] + SumOver(S \ {k}, f)

\* good plus invalid over all buckets, plus the missing count of bucket 0
Counted ==
    SumOver(Buckets, [j \in Buckets |-> good_entry_bins[j] + invalid_entry_bins[j]])
        + missing_pval_bins[0]

\* C2 as stated: after the aggregation, for any valid ticks, the sum over
\* the buckets of good + invalid, plus missing_pval_bins[0], is the number
\* of rows.
C2_SumIsRowCount ==
    pc \in AfterAggPcs => Counted = Cardinality(DOMAIN SNPs_report)

\* C2 amended: the sum over the buckets of good + invalid, plus
\* missing_pval_bins[0], is the number of rows less the Good and Invalid
\* rows whose p-value is above every tick of index >= 1; no row is left out
\* when there are two ticks or more and the last tick is 1.
C2_SumIsRowCountLessDropped ==
    pc \in AggPcs =>
        /\ Counted = range_next - Cardinality(Dropped)
        /\ (NTicks >= 2 /\ ticks[NTicks - 1] = One) => Dropped = {}

\* a finished run that counted one row and left another out
C2_Witness ==
    /\ pc = "done"
    /\ Cardinality(Dropped) = 1
    /\ Counted = 1
    /\ NTicks >= 2

\* C3: a Good or Invalid row is counted in one bucket at most, the lowest
\* j >= 1 with p <= ticks[j] (so a p-value equal to a tick falls to the
\* bucket that ends there); bucket 0 gets no such row; a row with its
\* p-value above the last tick changes no count.
C3_LowestBucket ==
    pc \in AggPcs =>
        /\ \A j \in Buckets :
            /\ good_entry_bins[j] = Cardinality(RowsIn(GOOD_ENTRY, j))
            /\ good_entry_bins[j] + invalid_entry_bins[j]
                = Cardinality(RowsIn(GOOD_ENTRY, j) \cup RowsIn(INVALID_ENTRY, j))
        /\ good_entry_bins[0] = 0
        /\ invalid_entry_bins[0] = 0
        /\ \A j \in Buckets, i \in IssueIdx :
                invalid_entry_bins_reason_bins[j][i]
                    <= Cardinality(RowsIn(INVALID_ENTRY, j))
        /\ SumOver(Buckets, good_entry_bins) + SumOver(Buckets, invalid_entry_bins)
            = Cardinality({k \in Processed :
                            SNPs_report[k] \in {GOOD_ENTRY, INVALID_ENTRY}})
                - Cardinality(Dropped)

\* a row whose p-value equals ticks[1] counted in bucket 1, next to a row
\* in the last bucket
C3_Witness ==
    /\ pc = "done"
    /\ NTicks > 2
    /\ \E k \in Processed :
        /\ SNPs_pval[k] = ticks[1]
        /\ SNPs_report[k] = INVALID_ENTRY
    /\ invalid_entry_bins[1] = 1
    /\ invalid_entry_bins[2] = 0
    /\ good_entry_bins[NTicks - 1] = 1

\* C10: for every bucket j >= 1, invalid_entry_bins[j] is the number of
\* Invalid rows assigned to j and invalid_entry_bins_reason_bins[j][i] the
\* number of those with flag i set, so that reason[j][i] <= invalid[j] <=
\* the sum over i of reason[j][i]; Good and MissingPValue rows change no
\* per-issue cell, and MissingPValue rows count in missing_pval_bins[0] only.
C10_InvalidAndReasons ==
    pc \in AggPcs =>
        /\ \A j \in Buckets \ {0} :
            /\ invalid_entry_bins[j] = Cardinality(RowsIn(INVALID_ENTRY, j))
            /\ \A i \in IssueIdx :
                /\ invalid_entry_bins_reason_bins[j][i]
                    = Cardinality({k \in RowsIn(INVALID_ENTRY, j) : SNPs_issues[k][i]})
                /\ invalid_entry_bins_reason_bins[j][i] <= invalid_entry_bins[j]
            /\ invalid_entry_bins[j]
                <= SumOver(IssueIdx, invalid_entry_bins_reason_bins[j])
            /\ missing_pval_bins[j] = 0
        /\ \A i \in IssueIdx : invalid_entry_bins_reason_bins[0][i] = 0
        /\ missing_pval_bins[0] = Cardinality(MissingRows)

\* two Invalid rows with different flags in one bucket
C10_Witness ==
    /\ pc = "done"
    /\ \E j \in Buckets \ {0} :
        /\ invalid_entry_bins[j] = 2
        /\ invalid_entry_bins_reason_bins[j][INVALID_BP] = 1
        /\ invalid_entry_bins_reason_bins[j][INVALID_SE] = 1

\* the permutations of the slots
Perms ==
    {f \in [DOMAIN SNPs_report -> DOMAIN SNPs_report] :
        \A a, b \in DOMAIN SNPs_report : f[a] = f[b] => a = b}

ZeroBins ==
    [missing |-> [j \in Buckets |-> 0], good |-> [j \in Buckets |-> 0],
     invalid |-> [j \in Buckets |-> 0],
     reason |-> [j \in Buckets |-> [i \in IssueIdx |-> 0]]]

RECURSIVE AggregateIn(_, _)
\* the counters after the loop body has run on rows order[0..n-1]
AggregateIn(order, n) ==
    IF n = 0 THEN ZeroBins
    ELSE AggBody(AggregateIn(order, n - 1), ticks, SNPs_pval[order[n - 1]],
                 SNPs_report[order[n - 1]], SNPs_issues[order[n - 1]])

\* C6: the counters do not depend on the order of the rows: aggregating
\* any permutation of the rows gives the four counters of the run.
C6_OrderInsensitive ==
    pc \in AfterAggPcs =>
        \A order \in Perms : AggregateIn(order, Cardinality(DOMAIN SNPs_report)) = Bins

\* a run over two rows of different verdicts and buckets
C6_Witness ==
    /\ pc = "done"
    /\ Cardinality(Perms) >= 2
    /\ SNPs_report[0] = INVALID_ENTRY
    /\ SNPs_report[1] = GOOD_ENTRY
    /\ LowestTick(SNPs_pval[0]) > LowestTick(SNPs_pval[1])
    /\ LowestTick(SNPs_pval[1]) >= 1

\* the data rows of the file
DataRows == Len(file) - 1

\* C7 as stated: the arrays have line count - 1 slots, the pass ends at the
\* end of the input, and when the input has fewer data rows than slots
\* no verdict is stored in, or counted from, a slot past the last row.
C7_NoVerdictPastLastRow ==
    pc \notin {"step1", "OSError"} =>
        /\ Cardinality(DOMAIN SNPs_report) = num_of_lines - 1
        /\ \A k \in DOMAIN SNPs_report :
                k >= DataRows => SNPs_report[k] = EmptyReport
        /\ pc \in AggPcs =>
                missing_pval_bins[0]
                    <= Cardinality({k \in MissingRows : k < DataRows})

\* C8: issues_count holds, per issue label, the sum of the issue's column
\* over the buckets, under "pval" the number of MissingPValue rows and
\* under "total_entries" the number of rows; the invalid total is the sum
\* of the invalid counts plus the missing count, at most total_entries.
C8_Summary ==
    pc \in {"done", "ZeroDivisionError"} =>
        /\ \A i \in IssueIdx :
            issues_count[ISSUES_LABELS[i + 1]]
                = SumOver(Buckets, [j \in Buckets |-> invalid_entry_bins_reason_bins[j][i]])
        /\ issues_count["pval"] = Cardinality(MissingRows)
        /\ issues_count["total_entries"] = Cardinality(DOMAIN SNPs_report)
        /\ invalid_entries_totally
            = SumOver(Buckets, invalid_entry_bins) + Cardinality(MissingRows)
        /\ invalid_entries_totally <= issues_count["total_entries"]

\* a summary of one Invalid row in the last bucket and one MissingPValue row
C8_Witness ==
    /\ pc = "done"
    /\ NTicks >= 2
    /\ invalid_entry_bins[NTicks - 1] = 1
    /\ issues_count["BP"] = 1
    /\ issues_count["pval"] = 1
    /\ invalid_entries_totally = 2

(***************************************************************************)
(* Properties of the error handling of the read loop.                      *)
(***************************************************************************)
\* a read has failed in the I/O layer and ended the run
ReadFailed == pc = "OSError" \/ (pc = "raise" /\ caught_e = "OSError")

\* C11 as stated: when the read of the k-th line of the file fails in the
\* I/O layer the run ends with the error, and the one diagnostic printed
\* names line k, the line being read; a loop that ends at the end of the
\* file prints no diagnostic and goes on to the next step.
C11_DiagnosticNamesLine ==
    /\ ReadFailed => printed_line = << file_pos >>
    /\ caught_e = "OSError" => pc = "raise"
    /\ IsEndOfFile(caught_e) => printed_line = << >> /\ pc # "raise"

(***************************************************************************)
(* Properties of the chromosome check.                                     *)
(***************************************************************************)
\* the raw Chr field of row k
ChrField(k) == RowAt(k)[cols_i["Chr"] + 1]

\* row k went through the checks of lines 256-330: its p-value was usable
\* and all its required fields were read
ReachedFieldChecks(k) ==
    /\ SNPs_report[k] \in {GOOD_ENTRY, INVALID_ENTRY}
    /\ ~SNPs_issues[k][INVALID_ROW]

\* v begins with "chr" in any case
HasChrPrefix(v) == Len(v) >= 3 /\ lower(SubSeq(v, 1, 3)) = "chr"

\* v names a chromosome: a member of the category set, or "chr" in any case
\* followed by a member
NamesChromosome(v) ==
    \/ v \in CATEGORY_CHR
    \/ HasChrPrefix(v) /\ SubSeq(v, 4, Len(v)) \in CATEGORY_CHR

\* C12 as stated: for a row that reaches the field checks the chromosome
\* flag is false exactly when the raw Chr value is in the category set or
\* is "chr", in any case, followed by a member of the set; any other value,
\* one with three other leading characters included, sets the flag.
C12_ChrFlagExact ==
    \A k \in Stored :
        ReachedFieldChecks(k) =>
            (SNPs_issues[k][INVALID_CHR] <=> ~NamesChromosome(ChrField(k)))

(***************************************************************************)
(* Properties of the geometry of the plot.                                 *)
(***************************************************************************)
\* the places of the script after the geometry was built
GeometryPcs == {"step2.3"} \cup AggPcs

\* the places of the script that come before the rule is looked at, or that
\* end the run before that
BeforeGeometryPcs == {"step1", "reading", "step2", "raise", "OSError"}

\* C13: under the 'even' and the 'log10' rule bars_widths and ticks_loc are
\* as long as ticks, bars_widths[0] = 1, ticks_loc[0] = 0 and
\* ticks_loc[i] = ticks_loc[i-1] + bars_widths[i] from i = 1 on; under
\* 'even' every width is 1 and ticks_loc[i] = i; under 'log10' the width of
\* a bar whose left tick is 0 is 2; under any other rule the run ends with a
\* ValueError and no tick location is produced.
C13_Geometry ==
    /\ pc \in GeometryPcs =>
        /\ ticks_width_rule \in {"even", "log10"}
        /\ DOMAIN bars_widths = DOMAIN ticks
        /\ DOMAIN ticks_loc = DOMAIN ticks
        /\ bars_widths[0] = Rat(1)
        /\ ticks_loc[0] = Rat(0)
        /\ \A i \in 1..(NTicks - 1) :
                ticks_loc[i] = LinAdd(ticks_loc[i - 1], bars_widths[i])
        /\ ticks_width_rule = "even" =>
                \A i \in Buckets : bars_widths[i] = Rat(1) /\ ticks_loc[i] = Rat(i)
        /\ ticks_width_rule = "log10" =>
                \A i \in 1..(NTicks - 1) :
                    ticks[i - 1] = Zero => bars_widths[i] = Rat(2)
    /\ ticks_width_rule \notin {"even", "log10"} =>
        /\ pc \in BeforeGeometryPcs \cup {"ValueError"}
        /\ ticks_loc = << >>
    /\ pc = "ValueError" => ticks_width_rule \notin {"even", "log10"}

\* the geometry of the ticks of line 85 under 'log10': a first bar of
\* width 2, a bar whose width has a logarithm in it, and the last tick at 6
C13_Witness ==
    /\ pc = "done"
    /\ ticks_width_rule = "log10"
    /\ x = DefaultX
    /\ bars_widths[1] = Rat(2)
    /\ bars_widths[2] = [q |-> 3, l |-> << >>, d |-> 2]
    /\ DOMAIN bars_widths[4].l = {3}
    /\ ticks_loc[NTicks - 1] = Rat(6)

====
